---- MODULE Spec2Model ----
(***************************************************************************)
(* Automatic Folders (src/main.ts): an Obsidian plugin that files daily    *)
(* notes named after a date into base/year/month folders.                  *)
(*                                                                         *)
(* Strings are sequences of one-character strings, so that startsWith,     *)
(* the extension regexp and the date formats act on text as the code's do. *)
(* A path is such a string; "/" separates its segments.                    *)
(***************************************************************************)
EXTENDS Naturals, Sequences, FiniteSets, TLC

\* ------------------------------------------------------------------ text

Digits == <<"0", "1", "2", "3", "4", "5", "6", "7", "8", "9">>

DigitSet == {Digits[i] : i \in 1..Len(Digits)}

DigitChar(n) == Digits[n + 1]

DigitVal(c) == CHOOSE n \in 0..9 : Digits[n + 1] = c

\* String.prototype.startsWith
StartsWith(s, p) == Len(p) <= Len(s) /\ SubSeq(s, 1, Len(p)) = p

\* the positions of character c in s
Positions(s, c) == {i \in 1..Len(s) : s[i] = c}

Max(S) == CHOOSE m \in S : \A n \in S : n <= m

\* TFile.name: the last segment of a path
NameOf(path) ==
    IF Positions(path, "/") = {} THEN path
    ELSE SubSeq(path, Max(Positions(path, "/")) + 1, Len(path))

\* TAbstractFile.parent.path: the path without its last segment
ParentOf(path) ==
    IF Positions(path, "/") = {} THEN <<>>
    ELSE SubSeq(path, 1, Max(Positions(path, "/")) - 1)

\* every folder path above a path, the nearest last
Ancestors(path) ==
    {SubSeq(path, 1, i - 1) : i \in Positions(path, "/")}

\* file.name.replace(/\.[^/.]+$/, ""): drop the last "." and what follows
\* it, when at least one character follows it
StripExtension(name) ==
    IF Positions(name, ".") = {} THEN name
    ELSE LET i == Max(Positions(name, "."))
         IN IF i < Len(name) THEN SubSeq(name, 1, i - 1) ELSE name

\* ----------------------------------------------------------------- dates
\* moment.js, for the tokens YYYY, MM and DD; any other token of a format
\* is a literal character.

FieldTokens == {"YYYY", "MM", "DD"}

TokenWidth(tok) == IF tok = "YYYY" THEN 4 ELSE IF tok \in FieldTokens THEN 2 ELSE 1

IsLeap(y) == (y % 4 = 0 /\ y % 100 # 0) \/ y % 400 = 0

DaysInMonth(y, m) ==
    IF m = 2 THEN (IF IsLeap(y) THEN 29 ELSE 28)
    ELSE IF m \in {4, 6, 9, 11} THEN 30 ELSE 31

RECURSIVE ToNumber(_)
ToNumber(s) ==
    IF s = <<>> THEN 0
    ELSE 10 * ToNumber(SubSeq(s, 1, Len(s) - 1)) + DigitVal(s[Len(s)])

RECURSIVE Pad(_, _)
\* n in decimal, zero-padded to w characters
Pad(n, w) == IF w = 0 THEN <<>> ELSE Pad(n \div 10, w - 1) \o <<DigitChar(n % 10)>>

FormatToken(date, tok) ==
    IF tok = "YYYY" THEN Pad(date.y, 4)
    ELSE IF tok = "MM" THEN Pad(date.m, 2)
    ELSE IF tok = "DD" THEN Pad(date.d, 2)
    ELSE <<tok>>

RECURSIVE Format(_, _)
\* moment.format(fmt)
Format(date, fmt) ==
    IF fmt = <<>> THEN <<>>
    ELSE FormatToken(date, Head(fmt)) \o Format(date, Tail(fmt))

NoDate == [ok |-> FALSE, y |-> 0, m |-> 0, d |-> 0]

RECURSIVE ParseTokens(_, _, _)
\* strict parsing: every token consumes exactly its width, a field token
\* only digits and a literal only itself, and nothing is left over
ParseTokens(s, fmt, acc) ==
    IF fmt = <<>> THEN (IF s = <<>> THEN acc ELSE NoDate)
    ELSE LET tok == Head(fmt)
             w == TokenWidth(tok)
         IN IF Len(s) < w THEN NoDate
            ELSE LET lex == SubSeq(s, 1, w)
                     rest == SubSeq(s, w + 1, Len(s))
                 IN IF tok \in FieldTokens
                    THEN IF \A i \in 1..w : lex[i] \in DigitSet
                         THEN ParseTokens(rest, Tail(fmt),
                                 IF tok = "YYYY" THEN [acc EXCEPT !.y = ToNumber(lex)]
                                 ELSE IF tok = "MM" THEN [acc EXCEPT !.m = ToNumber(lex)]
                                 ELSE [acc EXCEPT !.d = ToNumber(lex)])
                         ELSE NoDate
                    ELSE IF lex = <<tok>> THEN ParseTokens(rest, Tail(fmt), acc)
                         ELSE NoDate

\* moment(text, fmt, true); isValid() is the ok field. A field the format
\* does not name keeps moment's default (the first month, the first day).
ParseStrict(text, fmt) ==
    LET p == ParseTokens(text, fmt, [ok |-> TRUE, y |-> 0, m |-> 1, d |-> 1])
    IN IF p.ok /\ p.m \in 1..12 /\ p.d \in 1..DaysInMonth(p.y, p.m) THEN p ELSE NoDate

\* ------------------------------------------------------------- settings

\* DEFAULT_SETTINGS, loaded with the base folder the user saved ("j")
DEFAULT_SETTINGS ==
    [baseJournalFolder |-> <<"j">>,
     dailyNoteFormat |-> <<"YYYY", "-", "MM", "-", "DD">>,
     monthlyFolderFormat |-> <<"MM", "-", "YYYY">>,
     yearlyFolderFormat |-> <<"YYYY">>]

\* the settings a user may have saved: a base folder (one of them nested,
\* one whose name begins with another's) and the formats of the year and
\* month folders
BaseFolders == {<<"j">>, <<"j", "x">>, <<"j", "/", "o", "l", "d">>}

YearlyFormats == {<<"YYYY">>, <<"YYYY", "-", "MM">>}

MonthlyFormats == {<<"MM", "-", "YYYY">>, <<"MM">>}

SavedSettings ==
    {[DEFAULT_SETTINGS EXCEPT !.baseJournalFolder = b,
                              !.yearlyFolderFormat = y,
                              !.monthlyFolderFormat = m] :
        b \in BaseFolders, y \in YearlyFormats, m \in MonthlyFormats}

DailyFormats == {<<"YYYY", "-", "MM", "-", "DD">>, <<"DD", "-", "MM", "-", "YYYY">>}

\* the settings the edits of the settings tab lead to (SpecSettings)
EditedSettings ==
    {[DEFAULT_SETTINGS EXCEPT !.baseJournalFolder = b,
                              !.monthlyFolderFormat = m,
                              !.dailyNoteFormat = d] :
        b \in {<<"j">>, <<"j", "/", "o", "l", "d">>}, m \in MonthlyFormats, d \in DailyFormats}

\* the largest number of edits made in the settings tab (SpecSettings)
MaxEdits == 2

\* the date moment() returns
Today == [ok |-> TRUE, y |-> 2025, m |-> 6, d |-> 1]

\* ----------------------------------------------------------------- vault
\* The files the vault may hold, each with the path it has when it first
\* appears (TFile objects; a rename keeps the object and changes its path).

FileIds == {"a", "b", "c", "d", "n", "v", "q", "p", "t", "k", "o", "m", "y", "e"}

\* the files a vault may hold when a sweep starts (SpecSweep)
InitialFiles == {"a", "b", "c", "n", "v", "q", "t", "k"}

\* the files a vault may hold when onload starts (Spec)
LoadFiles == {"a", "b", "c", "v", "t", "k"}

\* the files a vault may hold when onload starts, among them a file at the
\* path of today's month folder and one at the path of today's year folder
\* (SpecStartup)
StartupFiles == {"a", "c", "m", "y"}

\* the dated files that may be created under one of the base folders, two
\* of them of the same month (SpecTarget)
TargetFiles == {"a", "b", "d", "q", "o", "e"}

\* the files that may be created while onload runs and after it
\* (SpecStartup)
StartupCreated == {"b", "e", "o"}

\* the files of a vault where files are classified again (SpecAgain)
AgainFiles == {"a", "b"}

\* the files of a vault whose settings are edited (SpecSettings)
SettingsFiles == {"a", "q", "d"}

\* the files that may be created once the handler is registered
LaterFiles == {"a", "d", "n", "q", "p", "o"}

Md == <<".", "m", "d">>

OriginPaths ==
  [f \in FileIds |->
    CASE f = "a" -> <<"j", "/", "2", "0", "2", "5", "-", "0", "1", "-", "1", "5">> \o Md
      [] f = "b" -> <<"j", "/", "2", "0", "2", "5", "-", "0", "3", "-", "0", "5">> \o Md
      [] f = "c" -> <<"j", "/", "2", "0", "2", "5", "-", "0", "6", "-", "0", "1">> \o Md
      [] f = "d" -> <<"j", "/", "2", "0", "2", "5", "-", "0", "6", "-", "0", "1", ".", "t", "x", "t">>
      [] f = "n" -> <<"j", "/", "n", "o", "t", "e", "s">> \o Md
      [] f = "v" -> <<"j", "/", "2", "0", "2", "5", "-", "0", "2", "-", "3", "0">> \o Md
      [] f = "q" -> <<"j", "/", "o", "l", "d", "/",
                      "2", "0", "2", "5", "-", "0", "1", "-", "1", "5">> \o Md
      [] f = "p" -> <<"j", "/", "2", "0", "2", "5", "/", "0", "3", "-", "2", "0", "2", "5", "x",
                      "/", "2", "0", "2", "5", "-", "0", "3", "-", "0", "5">> \o Md
      [] f = "t" -> <<"j", "/", "2", "0", "2", "5", "/", "0", "3", "-", "2", "0", "2", "5">>
      [] f = "k" -> <<"j">>
      [] f = "o" -> <<"j", "x", "/", "2", "0", "2", "5", "-", "0", "1", "-", "1", "5">> \o Md
      [] f = "m" -> <<"j", "/", "2", "0", "2", "5", "/", "0", "6", "-", "2", "0", "2", "5">>
      [] f = "y" -> <<"j", "/", "2", "0", "2", "5">>
      [] f = "e" -> <<"j", "/", "2", "0", "2", "5", "-", "0", "1", "-", "2", "0">> \o Md]

\* the path a file has when it first appears
OriginPath(f) == OriginPaths[f]

\* the largest number of files in the vault when onload starts (Spec)
MaxLoadFiles == 2

\* the largest number of files in the vault when the first sweep starts
\* (SpecSweep)
MaxInitFiles == 3

\* the largest number of files created once the handler is registered
MaxCreates == 2

\* the number of sweeps run in succession under SpecSweep
MaxSweeps == 2

\* invocations of handleOldDailyFile: 0 is the sweep's, k > 0 the one the
\* create-event handler makes for the k-th created file
InvIds == 0..MaxCreates

VARIABLES
    settings,      \* this.settings
    nEdits,        \* the number of edits made in the settings tab
    today,         \* the date moment() returns
    folders,       \* the paths that are folders
    filePath,      \* TFile.path of every file; <<>> while the file does not exist
    children,      \* TFolder.children of every folder, in order
    lpc,           \* where onload is
    journalFolder, \* organizeExistingFiles: the path of the TFolder it iterates
    idx,           \* organizeExistingFiles: the array iterator's next index (0-based)
    inv,           \* the invocations of handleOldDailyFile
    registered,    \* whether the create-event handler is registered
    nEvents,       \* the number of files created so far
    run,           \* the number of the sweep (1, 2, ...)
    startChildren, \* history: journalFolder.children when the sweep started
    swept,         \* history: the files the sweep has called handleOldDailyFile on
    moves,         \* history: the successful renames of this sweep
    renameCalls,   \* history: vault.rename calls issued, per file
    createCalls,   \* history: vault.createFolder calls issued
    outcome,       \* history: how far the sweep is
    failed,        \* history: the files whose rename failed during this sweep
    faulted        \* history: whether the backend has refused a call it could serve

vars == <<settings, nEdits, today, folders, filePath, children, lpc, journalFolder, idx, inv,
          registered, nEvents, run, startChildren, swept, moves, renameCalls, createCalls,
          outcome, failed, faulted>>

FileEntry(f) == <<"F", f>>

FolderEntry(path) == <<"D">> \o path

\* child instanceof TFile
IsFileEntry(e) == e[1] = "F"

\* adapter.exists(path): something, a folder or a file, is at the path
Exists(path) == path \in folders \/ \E f \in FileIds : filePath[f] = path

\* getAbstractFileByPath(path) instanceof TFolder
IsFolder(path) == path \in folders

\* whether a file lies on the way to a path
BlockedByFile(path) == \E g \in Ancestors(path), f \in FileIds : filePath[f] = g

\* the folder tree after mkdir -p: the missing folders of the chain down to
\* path are made, each appended to its parent's children
TreeWith(ch, fs, path) ==
    LET chain == Ancestors(path) \cup {path}
        new == chain \ fs
        Added(g) == {c \in new : ParentOf(c) = g}
        Extra(g) == IF Added(g) = {} THEN <<>>
                    ELSE <<FolderEntry(CHOOSE c \in Added(g) : TRUE)>>
    IN [g \in fs \cup new |-> IF g \in fs THEN ch[g] \o Extra(g) ELSE Extra(g)]

\* vault.createFolder(path) succeeds when nothing is at the path and no
\* file lies on the way to it
CreateFolderOk(path) == ~Exists(path) /\ ~BlockedByFile(path)

\* vault.rename(file, newPath) succeeds when nothing is at newPath and its
\* parent is a folder
RenameOk(newPath) == ~Exists(newPath) /\ IsFolder(ParentOf(newPath))

\* an I/O fault (permission denied, a failing disk) may refuse a call the
\* backend could serve
Faults(servable) == IF servable THEN BOOLEAN ELSE {FALSE}

Without(seq, e) == SelectSeq(seq, LAMBDA z : z # e)

\* TFolder.children after the file moved from oldPath to newPath: removed
\* from the old parent's array in place, pushed to the new parent's
ChildrenAfterRename(ch, f, oldPath, newPath) ==
    [g \in DOMAIN ch |->
        LET kept == IF g = ParentOf(oldPath) THEN Without(ch[g], FileEntry(f)) ELSE ch[g]
        IN IF g = ParentOf(newPath) THEN kept \o <<FileEntry(f)>> ELSE kept]

\* ---------------------------------------------------- handleOldDailyFile

\* isValid() not consulted: whatever the tokens gave counts as a date
GetFilesDateUnchecked(name) ==
    [ParseTokens(StripExtension(name), settings.dailyNoteFormat,
                 [ok |-> TRUE, y |-> 0, m |-> 1, d |-> 1]) EXCEPT !.ok = TRUE]

\* lines 86-93: the date the file's name gives
GetFilesDate(name) == ParseStrict(StripExtension(name), settings.dailyNoteFormat)

\* line 102
TodayString == Format(today, settings.dailyNoteFormat)

\* the name compared with its extension still on
IsTodaysFileWithExtension(name) == name = TodayString

\* line 103
IsTodaysFile(name) == StripExtension(name) = TodayString

\* the month folder above the year folder
TargetFolderPathMonthFirst(name) ==
    LET getFilesDate == GetFilesDate(name)
    IN settings.baseJournalFolder \o <<"/">>
       \o Format(getFilesDate, settings.monthlyFolderFormat) \o <<"/">>
       \o Format(getFilesDate, settings.yearlyFolderFormat)

\* lines 108-116
TargetFolderPath(name) ==
    LET getFilesDate == GetFilesDate(name)
    IN settings.baseJournalFolder \o <<"/">>
       \o Format(getFilesDate, settings.yearlyFolderFormat) \o <<"/">>
       \o Format(getFilesDate, settings.monthlyFolderFormat)

\* the guard as an equality of the file's path and the target
AlreadyPlacedIfEqual(path, target) == path = target

\* the guard as a comparison of the file's folder with the target
AlreadyPlacedExactly(path, target) == ParentOf(path) = target

\* line 121
AlreadyPlaced(path, target) == StartsWith(path, target)

\* the new path built from the name without its extension
NewPathOfBaseName(target, name) == target \o <<"/">> \o StripExtension(name)

\* line 129
NewPath(target, name) == target \o <<"/">> \o name

\* An invocation: where it is (pc), its file, its locals targetFolderPath and
\* the path the file had at the call, what it gave back (out: "null", the
\* file's "name", or "raised" when a fault left it; ret is the name), the
\* return statement taken (why), the backend calls it issued and, as
\* history, this.settings as it was at the call (snap).
IdleInv ==
    [pc |-> "idle", file |-> "none", target |-> <<>>, oldPath |-> <<>>, out |-> "none",
     why |-> "none", ret |-> <<>>, nCreate |-> 0, nRename |-> 0, snap |-> DEFAULT_SETTINGS]

\* lines 85-116: the call runs to its first await, or to a return before it
StartInv(f, path) ==
    LET name == NameOf(path)
        called == [IdleInv EXCEPT !.file = f, !.oldPath = path, !.snap = settings]
    IN IF ~GetFilesDate(name).ok
       THEN [called EXCEPT !.pc = "returned", !.out = "null", !.why = "notDated"]
       ELSE IF IsTodaysFile(name)
       THEN [called EXCEPT !.pc = "returned", !.out = "null", !.why = "today"]
       ELSE [called EXCEPT !.pc = "exists1", !.target = TargetFolderPath(name)]

\* onload after the sweep's invocation moved to pc: a return resumes the
\* loop, a fault leaves organizeExistingFiles and onload
LpcAfter(i, pc) ==
    IF i # 0 THEN lpc
    ELSE IF pc = "returned" THEN "loop"
    ELSE IF pc = "raised" THEN "crashed"
    ELSE lpc

\* ensureFolderExists without its test: createFolder is called whatever is
\* at the path
EnsureAlwaysCreates(i) ==
    /\ inv[i].pc \in {"exists1", "exists2"}
    /\ inv' = [inv EXCEPT ![i].pc = IF @ = "exists1" THEN "create1" ELSE "create2"]
    /\ UNCHANGED <<settings, nEdits, today, folders, filePath, children, lpc, journalFolder, idx,
                   registered, nEvents, run, startChildren, swept, moves, renameCalls,
                   createCalls, outcome, failed, faulted>>

\* line 62 (called at 118 and at 126): await adapter.exists(folderPath)
EnsureExists(i) ==
    /\ inv[i].pc \in {"exists1", "exists2"}
    /\ inv' = [inv EXCEPT ![i].pc =
                 IF Exists(inv[i].target)
                 THEN (IF @ = "exists1" THEN "placed" ELSE "rename")
                 ELSE (IF @ = "exists1" THEN "create1" ELSE "create2")]
    /\ UNCHANGED <<settings, nEdits, today, folders, filePath, children, lpc, journalFolder, idx,
                   registered, nEvents, run, startChildren, swept, moves, renameCalls,
                   createCalls, outcome, failed, faulted>>

\* line 63: await vault.createFolder(folderPath); its fault is not caught
EnsureCreate(i) ==
    /\ inv[i].pc \in {"create1", "create2"}
    /\ \E fault \in Faults(CreateFolderOk(inv[i].target)) :
        LET t == inv[i].target
            ok == ~fault /\ CreateFolderOk(t)
            pc == IF ~ok THEN "raised"
                  ELSE IF inv[i].pc = "create1" THEN "placed" ELSE "rename"
        IN /\ folders' = IF ok THEN folders \cup Ancestors(t) \cup {t} ELSE folders
           /\ children' = IF ok THEN TreeWith(children, folders, t) ELSE children
           /\ inv' = [inv EXCEPT ![i].pc = pc,
                                 ![i].out = IF ok THEN @ ELSE "raised",
                                 ![i].nCreate = @ + 1]
           /\ lpc' = LpcAfter(i, pc)
           /\ faulted' = (faulted \/ fault)
    /\ createCalls' = createCalls + 1
    /\ UNCHANGED <<settings, nEdits, today, filePath, journalFolder, idx, registered, nEvents, run,
                   startChildren, swept, moves, renameCalls, outcome, failed>>

\* lines 108-116 moved below the await of line 118: the target is computed
\* from this.settings as it is once ensureFolderExists has returned
PlacedRereadsSettings(i) ==
    /\ inv[i].pc = "placed"
    /\ LET target == TargetFolderPath(NameOf(filePath[inv[i].file]))
           placed == AlreadyPlaced(filePath[inv[i].file], target)
           pc == IF placed THEN "returned" ELSE "exists2"
       IN /\ inv' = [inv EXCEPT ![i].pc = pc,
                                ![i].target = target,
                                ![i].out = IF placed THEN "null" ELSE @,
                                ![i].why = IF placed THEN "placed" ELSE @]
          /\ lpc' = LpcAfter(i, pc)
    /\ UNCHANGED <<settings, nEdits, today, folders, filePath, children, journalFolder, idx,
                   registered, nEvents, run, startChildren, swept, moves, renameCalls,
                   createCalls, outcome, failed, faulted>>

\* lines 121-124: the already-placed guard
Placed(i) ==
    /\ inv[i].pc = "placed"
    /\ LET placed == AlreadyPlaced(filePath[inv[i].file], inv[i].target)
           pc == IF placed THEN "returned" ELSE "exists2"
       IN /\ inv' = [inv EXCEPT ![i].pc = pc,
                                ![i].out = IF placed THEN "null" ELSE @,
                                ![i].why = IF placed THEN "placed" ELSE @]
          /\ lpc' = LpcAfter(i, pc)
    /\ UNCHANGED <<settings, nEdits, today, folders, filePath, children, journalFolder, idx,
                   registered, nEvents, run, startChildren, swept, moves, renameCalls,
                   createCalls, outcome, failed, faulted>>

\* lines 129-137: await vault.rename(file, newPath), its fault caught
Rename(i) ==
    /\ inv[i].pc = "rename"
    /\ \E fault \in Faults(RenameOk(NewPath(inv[i].target, NameOf(filePath[inv[i].file])))) :
        LET f == inv[i].file
            name == NameOf(filePath[f])
            newPath == NewPath(inv[i].target, name)
            ok == ~fault /\ RenameOk(newPath)
        IN /\ filePath' = IF ok THEN [filePath EXCEPT ![f] = newPath] ELSE filePath
           /\ children' = IF ok THEN ChildrenAfterRename(children, f, filePath[f], newPath)
                          ELSE children
           /\ inv' = [inv EXCEPT ![i].pc = "returned",
                                 ![i].out = IF ok THEN "name" ELSE "null",
                                 ![i].ret = IF ok THEN name ELSE @,
                                 ![i].why = IF ok THEN "moved" ELSE "moveFailed",
                                 ![i].nRename = @ + 1]
           /\ moves' = IF ok /\ i = 0 THEN moves + 1 ELSE moves
           /\ renameCalls' = [renameCalls EXCEPT ![f] = @ + 1]
           /\ failed' = IF ~ok /\ i = 0 THEN failed \cup {f} ELSE failed
           /\ faulted' = (faulted \/ fault)
    /\ lpc' = LpcAfter(i, "returned")
    /\ UNCHANGED <<settings, nEdits, today, folders, journalFolder, idx, registered, nEvents, run,
                   startChildren, swept, createCalls, outcome>>

\* ----------------------------------------------------------------- onload

\* lines 48-52
YearlyFolderPath ==
    settings.baseJournalFolder \o <<"/">> \o Format(today, settings.yearlyFolderFormat)

MonthlyFolderPath ==
    YearlyFolderPath \o <<"/">> \o Format(today, settings.monthlyFolderFormat)

\* the path ensureCurrentFolderExists is ensuring
CurrentFolderPath ==
    IF lpc \in {"ecYearExists", "ecYearCreate"} THEN YearlyFolderPath ELSE MonthlyFolderPath

\* lines 55, 57 and 62: await adapter.exists of the year, then of the month
EcExists ==
    /\ lpc \in {"ecYearExists", "ecMonthExists"}
    /\ lpc' = IF Exists(CurrentFolderPath)
              THEN (IF lpc = "ecYearExists" THEN "ecMonthExists" ELSE "sweep")
              ELSE (IF lpc = "ecYearExists" THEN "ecYearCreate" ELSE "ecMonthCreate")
    /\ UNCHANGED <<settings, nEdits, today, folders, filePath, children, journalFolder, idx, inv,
                   registered, nEvents, run, startChildren, swept, moves, renameCalls,
                   createCalls, outcome, failed, faulted>>

\* line 63 under lines 55 and 57: a fault leaves onload
EcCreate ==
    /\ lpc \in {"ecYearCreate", "ecMonthCreate"}
    /\ \E fault \in Faults(CreateFolderOk(CurrentFolderPath)) :
        LET t == CurrentFolderPath
            ok == ~fault /\ CreateFolderOk(t)
        IN /\ folders' = IF ok THEN folders \cup Ancestors(t) \cup {t} ELSE folders
           /\ children' = IF ok THEN TreeWith(children, folders, t) ELSE children
           /\ lpc' = IF ~ok THEN "crashed"
                     ELSE IF lpc = "ecYearCreate" THEN "ecMonthExists" ELSE "sweep"
           /\ faulted' = (faulted \/ fault)
    /\ createCalls' = createCalls + 1
    /\ UNCHANGED <<settings, nEdits, today, filePath, journalFolder, idx, inv, registered, nEvents,
                   run, startChildren, swept, moves, renameCalls, outcome, failed>>

\* organizeExistingFiles without the instanceof guard: reading the children
\* of what is not a folder raises
OrganizeStartUnguarded ==
    /\ lpc = "sweep"
    /\ LET baseFolder == settings.baseJournalFolder
       IN IF ~IsFolder(baseFolder)
          THEN /\ lpc' = "crashed"
               /\ outcome' = "noFolder"
               /\ UNCHANGED <<journalFolder, idx, startChildren>>
          ELSE /\ lpc' = "loop"
               /\ journalFolder' = baseFolder
               /\ idx' = 0
               /\ startChildren' = children[baseFolder]
               /\ outcome' = "iterating"
    /\ UNCHANGED <<settings, nEdits, today, folders, filePath, children, inv, registered, nEvents,
                   run, swept, moves, renameCalls, createCalls, failed, faulted>>

\* lines 68-74: organizeExistingFiles resolves the base folder
OrganizeStart ==
    /\ lpc = "sweep"
    /\ LET baseFolder == settings.baseJournalFolder
       IN IF ~IsFolder(baseFolder)
          THEN /\ lpc' = "sweepDone"
               /\ outcome' = "noFolder"
               /\ UNCHANGED <<journalFolder, idx, startChildren>>
          ELSE /\ lpc' = "loop"
               /\ journalFolder' = baseFolder
               /\ idx' = 0
               /\ startChildren' = children[baseFolder]
               /\ outcome' = "iterating"
    /\ UNCHANGED <<settings, nEdits, today, folders, filePath, children, inv, registered, nEvents,
                   run, swept, moves, renameCalls, createCalls, failed, faulted>>

\* lines 76-80: one step of for (const file of journalFolder.children): the
\* array iterator reads the live array at its index
SweepNext ==
    /\ lpc = "loop"
    /\ IF idx >= Len(children[journalFolder])
       THEN /\ lpc' = "sweepDone"
            /\ outcome' = "completed"
            /\ UNCHANGED <<idx, inv, swept>>
       ELSE LET file == children[journalFolder][idx + 1]
            IN /\ idx' = idx + 1
               /\ IF IsFileEntry(file)
                  THEN LET called == StartInv(file[2], filePath[file[2]])
                       IN /\ inv' = [inv EXCEPT ![0] = called]
                          /\ swept' = swept \cup {file[2]}
                          /\ lpc' = IF called.pc = "returned" THEN "loop" ELSE "classify"
                  ELSE UNCHANGED <<inv, swept, lpc>>
               /\ UNCHANGED outcome
    /\ UNCHANGED <<settings, nEdits, today, folders, filePath, children, journalFolder, registered,
                   nEvents, run, startChildren, moves, renameCalls, createCalls, failed,
                   faulted>>

\* registerEvent moved above the await of organizeExistingFiles
RegisterBeforeSweep ==
    /\ lpc = "sweep"
    /\ ~registered
    /\ registered' = TRUE
    /\ UNCHANGED <<settings, nEdits, today, folders, filePath, children, lpc, journalFolder, idx,
                   inv, nEvents, run, startChildren, swept, moves, renameCalls, createCalls,
                   outcome, failed, faulted>>

\* lines 37-43: the create-event handler is registered once the sweep is over
Register ==
    /\ lpc = "sweepDone"
    /\ lpc' = "loaded"
    /\ registered' = TRUE
    /\ UNCHANGED <<settings, nEdits, today, folders, filePath, children, journalFolder, idx, inv,
                   nEvents, run, startChildren, swept, moves, renameCalls, createCalls,
                   outcome, failed, faulted>>

\* the filter without the separator: any path that begins with the base
\* folder's name passes
UnderBaseFolderNoSeparator(path) == StartsWith(path, settings.baseJournalFolder)

\* line 39: file.path.startsWith(`${this.settings.baseJournalFolder}/`)
UnderBaseFolder(path) == StartsWith(path, settings.baseJournalFolder \o <<"/">>)

\* lines 38-42: a file appears in the vault (with the folders above it);
\* the handler, if it is registered, filters on the base folder and calls
\* handleOldDailyFile. A file created while no handler is registered reaches
\* no code of the plugin.
FileCreated(f) ==
    /\ nEvents < MaxCreates
    /\ filePath[f] = <<>>
    /\ LET path == OriginPath(f)
           parent == ParentOf(path)
           tree == IF parent = <<>> THEN children ELSE TreeWith(children, folders, parent)
       IN /\ ~Exists(path)
          /\ ~BlockedByFile(path)
          /\ filePath' = [filePath EXCEPT ![f] = path]
          /\ folders' = folders \cup Ancestors(path)
          /\ children' = IF parent = <<>> THEN children
                         ELSE [tree EXCEPT ![parent] = @ \o <<FileEntry(f)>>]
          /\ inv' = IF registered /\ UnderBaseFolder(path)
                    THEN [inv EXCEPT ![nEvents + 1] = StartInv(f, path)]
                    ELSE inv
    /\ nEvents' = nEvents + 1
    /\ UNCHANGED <<settings, nEdits, today, lpc, journalFolder, idx, registered, run, startChildren,
                   swept, moves, renameCalls, createCalls, outcome, failed, faulted>>

\* a file is created once the handler is registered (a file created before
\* is taken as part of the vault onload starts from)
CreateEvent(f) == registered /\ FileCreated(f)

\* lines 177-180, 220-223, 235-238: an edit in the settings tab
\* gives one field of this.settings another value
ChangeSetting ==
    /\ nEdits < MaxEdits
    /\ nEdits' = nEdits + 1
    /\ \E s \in EditedSettings :
        /\ Cardinality({k \in DOMAIN s : s[k] # settings[k]}) = 1
        /\ settings' = s
    /\ UNCHANGED <<today, folders, filePath, children, lpc, journalFolder, idx, inv,
                   registered, nEvents, run, startChildren, swept, moves, renameCalls,
                   createCalls, outcome, failed, faulted>>

\* lines 38-42: the host raises a create event for a file the vault already
\* holds (it raises one for every file while it loads the vault), and the
\* registered handler filters and calls handleOldDailyFile
FileLoaded(f) ==
    /\ registered
    /\ nEvents < MaxCreates
    /\ filePath[f] # <<>>
    /\ \A i \in InvIds : inv[i].file = f => inv[i].pc \in {"returned", "raised"}
    /\ inv' = IF UnderBaseFolder(filePath[f])
              THEN [inv EXCEPT ![nEvents + 1] = StartInv(f, filePath[f])]
              ELSE inv
    /\ nEvents' = nEvents + 1
    /\ UNCHANGED <<settings, nEdits, today, folders, filePath, children, lpc, journalFolder,
                   idx, registered, run, startChildren, swept, moves, renameCalls,
                   createCalls, outcome, failed, faulted>>

\* organizeExistingFiles is run again: the plugin is loaded again once the
\* calls of the load before have ended, and the handler that load
\* registered is registered no more
Rerun ==
    /\ lpc \in {"sweepDone", "loaded"}
    /\ \A i \in InvIds : inv[i].pc \in {"idle", "returned", "raised"}
    /\ run < MaxSweeps
    /\ run' = run + 1
    /\ lpc' = "sweep"
    /\ inv' = [inv EXCEPT ![0] = IdleInv]
    /\ swept' = {}
    /\ moves' = 0
    /\ outcome' = "none"
    /\ failed' = {}
    /\ registered' = FALSE
    /\ UNCHANGED <<settings, nEdits, today, folders, filePath, children, journalFolder, idx,
                   nEvents, startChildren, renameCalls, createCalls, faulted>>

\* ------------------------------------------------------------------ Init

\* the orders in which a set can be listed
Orders(S) == {s \in [1..Cardinality(S) -> S] : \A i, j \in 1..Cardinality(S) : s[i] = s[j] => i = j}

RECURSIVE SetToSeq(_)
SetToSeq(S) == IF S = {} THEN <<>> ELSE LET e == CHOOSE z \in S : TRUE IN <<e>> \o SetToSeq(S \ {e})

\* a vault with no file and no folder
EmptyVault ==
    /\ filePath = [f \in FileIds |-> <<>>]
    /\ folders = {}
    /\ children = [g \in {} |-> <<>>]

\* the sets of files a vault can hold together: no file at a path above
\* another file
Consistent(S) == \A f, g \in S : OriginPath(f) \notin Ancestors(OriginPath(g))

\* a vault holding the files of order: each folder lists its files in that
\* order, then its folders
InitVault(files, max) ==
    \E present \in {S \in SUBSET files : Cardinality(S) <= max /\ Consistent(S)} :
      \E order \in Orders(present) :
        LET fs == UNION {Ancestors(OriginPath(f)) : f \in present}
            filesIn(g) == SelectSeq(order, LAMBDA f : ParentOf(OriginPath(f)) = g)
            foldersIn(g) == SetToSeq({c \in fs : ParentOf(c) = g})
        IN /\ filePath = [f \in FileIds |-> IF f \in present THEN OriginPath(f) ELSE <<>>]
           /\ folders = fs
           /\ children = [g \in fs |->
                           [i \in 1..Len(filesIn(g)) |-> FileEntry(filesIn(g)[i])]
                           \o [i \in 1..Len(foldersIn(g)) |-> FolderEntry(foldersIn(g)[i])]]

\* no sweep and no call of handleOldDailyFile has been made
InitLocals ==
    /\ nEdits = 0
    /\ today = Today
    /\ journalFolder = <<>>
    /\ idx = 0
    /\ inv = [i \in InvIds |-> IdleInv]
    /\ nEvents = 0
    /\ run = 1
    /\ startChildren = <<>>
    /\ swept = {}
    /\ moves = 0
    /\ renameCalls = [f \in FileIds |-> 0]
    /\ createCalls = 0
    /\ outcome = "none"
    /\ failed = {}
    /\ faulted = FALSE

InitRest ==
    /\ settings = DEFAULT_SETTINGS
    /\ registered = FALSE
    /\ InitLocals

\* the plugin is loaded: onload is about to call ensureCurrentFolderExists
Init == InitVault(LoadFiles, MaxLoadFiles) /\ InitRest /\ lpc = "ecYearExists"

Next ==
    \/ EcExists
    \/ EcCreate
    \/ OrganizeStart
    \/ SweepNext
    \/ Register
    \/ \E f \in LaterFiles : CreateEvent(f)
    \/ \E i \in InvIds : EnsureExists(i)
    \/ \E i \in InvIds : EnsureCreate(i)
    \/ \E i \in InvIds : Placed(i)
    \/ \E i \in InvIds : Rename(i)

Spec == Init /\ [][Next]_vars

\* onload on a vault where a file may sit at the path of a folder of today
InitStartup == InitVault(StartupFiles, MaxLoadFiles) /\ InitRest /\ lpc = "ecYearExists"

\* onload, with files created at any moment of it and after it
NextStartup ==
    \/ EcExists
    \/ EcCreate
    \/ OrganizeStart
    \/ SweepNext
    \/ Register
    \/ \E f \in StartupCreated : FileCreated(f)
    \/ \E i \in InvIds : EnsureExists(i)
    \/ \E i \in InvIds : EnsureCreate(i)
    \/ \E i \in InvIds : Placed(i)
    \/ \E i \in InvIds : Rename(i)

SpecStartup == InitStartup /\ [][NextStartup]_vars

\* the handler at work under any saved settings: onload has returned on an
\* empty vault and files are created
InitTarget ==
    /\ EmptyVault
    /\ InitLocals
    /\ settings \in SavedSettings
    /\ registered = TRUE
    /\ lpc = "loaded"

NextTarget ==
    \/ \E f \in TargetFiles : CreateEvent(f)
    \/ \E i \in InvIds : EnsureExists(i)
    \/ \E i \in InvIds : EnsureCreate(i)
    \/ \E i \in InvIds : Placed(i)
    \/ \E i \in InvIds : Rename(i)

SpecTarget == InitTarget /\ [][NextTarget]_vars

\* the sweep, then the handler, while the settings are edited:
\* organizeExistingFiles is about to run on any vault
InitSettings == InitVault(SettingsFiles, MaxLoadFiles) /\ InitRest /\ lpc = "sweep"

NextSettings ==
    \/ ChangeSetting
    \/ OrganizeStart
    \/ SweepNext
    \/ Register
    \/ \E f \in SettingsFiles : CreateEvent(f)
    \/ \E i \in InvIds : EnsureExists(i)
    \/ \E i \in InvIds : EnsureCreate(i)
    \/ \E i \in InvIds : Placed(i)
    \/ \E i \in InvIds : Rename(i)

SpecSettings == InitSettings /\ [][NextSettings]_vars

\* sweeps and create events in any sequence: the plugin is loaded, files
\* are created and events raised for the files there, the plugin is loaded
\* again
InitAgain == InitVault(AgainFiles, MaxLoadFiles) /\ InitRest /\ lpc = "sweep"

NextAgain ==
    \/ OrganizeStart
    \/ SweepNext
    \/ Register
    \/ Rerun
    \/ \E f \in AgainFiles : CreateEvent(f)
    \/ \E f \in AgainFiles : FileLoaded(f)
    \/ \E i \in InvIds : EnsureExists(i)
    \/ \E i \in InvIds : EnsureCreate(i)
    \/ \E i \in InvIds : Placed(i)
    \/ \E i \in InvIds : Rename(i)

SpecAgain == InitAgain /\ [][NextAgain]_vars

\* organizeExistingFiles alone, run MaxSweeps times in succession on any vault
InitSweep == InitVault(InitialFiles, MaxInitFiles) /\ InitRest /\ lpc = "sweep"

NextSweep ==
    \/ OrganizeStart
    \/ SweepNext
    \/ Rerun
    \/ EnsureExists(0)
    \/ EnsureCreate(0)
    \/ Placed(0)
    \/ Rename(0)

SpecSweep == InitSweep /\ [][NextSweep]_vars

\* ---------------------------------------------------------------- claims

\* What the claims say of a file, from its name, under the settings and
\* the date of the run: whether the base name strictly parses under
\* dailyNoteFormat (dated), whether the base folder is one of the folders
\* above it (under), whether it is today's date under dailyNoteFormat
\* (today), base/year/month of the date it gives (target), target/name
\* (filed) and base/year/base/year/month (nested).
FactsOf(s, t, f) ==
    LET name == NameOf(OriginPath(f))
        date == ParseStrict(StripExtension(name), s.dailyNoteFormat)
        target == s.baseJournalFolder
                  \o <<"/">> \o Format(date, s.yearlyFolderFormat)
                  \o <<"/">> \o Format(date, s.monthlyFolderFormat)
        year == Format(date, s.yearlyFolderFormat)
        month == Format(date, s.monthlyFolderFormat)
    IN [name |-> name,
        nested |-> s.baseJournalFolder \o <<"/">> \o year \o <<"/">>
                   \o s.baseJournalFolder \o <<"/">> \o year \o <<"/">> \o month,
        under |-> s.baseJournalFolder \in Ancestors(OriginPath(f)),
        dated |-> date.ok,
        today |-> StripExtension(name) = Format(t, s.dailyNoteFormat),
        target |-> target,
        filed |-> target \o <<"/">> \o name]

Facts ==
    [s \in SavedSettings \cup EditedSettings, t \in {Today}, f \in FileIds |-> FactsOf(s, t, f)]

\* the same under the default settings
DefaultFacts == [f \in FileIds |-> FactsOf(DEFAULT_SETTINGS, Today, f)]

Fact(f) ==
    IF settings = DEFAULT_SETTINGS /\ today = Today THEN DefaultFacts[f]
    ELSE Facts[settings, today, f]

\* the invocations that have been made
Called == {i \in InvIds : inv[i].pc # "idle"}

\* C1: a dated file, not today's and not under its target folder, whose
\* rename succeeds is at target/name afterwards, name and extension as they
\* were, nothing is left at its old path and the call returns its name; and
\* a file that is not where it first was is at the target of its date.
C1_MovedToTarget ==
    /\ \A i \in Called : inv[i].why = "moved" =>
        LET f == inv[i].file
            old == inv[i].oldPath
        IN /\ Fact(f).dated /\ ~Fact(f).today /\ ~StartsWith(old, Fact(f).target)
           /\ NameOf(old) = Fact(f).name
           /\ filePath[f] = Fact(f).filed
           /\ \A g \in FileIds : filePath[g] # old
           /\ inv[i].out = "name"
           /\ inv[i].ret = Fact(f).name
    /\ \A f \in FileIds : filePath[f] \notin {<<>>, OriginPath(f)} => filePath[f] = Fact(f).filed

\* C1's case: the sweep has moved a file and the handler has moved another
C1_Witness ==
    /\ inv[0].why = "moved"
    /\ \E i \in Called \ {0} : inv[i].why = "moved"

\* C2: a file whose base name does not strictly parse is skipped at the
\* call, with null, and the call issues no createFolder and no rename: the
\* file stays where it was.
C2_NotDatedUntouched ==
    /\ \A i \in Called : ~Fact(inv[i].file).dated =>
        /\ inv[i].pc = "returned"
        /\ inv[i].out = "null"
        /\ inv[i].nCreate = 0
        /\ inv[i].nRename = 0
    /\ \A f \in FileIds : filePath[f] # <<>> /\ ~Fact(f).dated =>
        filePath[f] = OriginPath(f) /\ renameCalls[f] = 0

\* C2's case: the sweep has skipped the file named after the 30th of
\* February and the handler the file notes.md
C2_Witness ==
    /\ "v" \in swept
    /\ \E i \in Called \ {0} : inv[i].file = "n" /\ inv[i].why = "notDated"

\* C3: the file named after today's date is never renamed: every call on
\* it, the sweep's or the handler's, returns null, and it stays at its path.
C3_TodayNeverMoved ==
    \A f \in FileIds : filePath[f] # <<>> /\ Fact(f).dated /\ Fact(f).today =>
        /\ filePath[f] = OriginPath(f)
        /\ renameCalls[f] = 0
        /\ \A i \in Called : inv[i].file = f =>
            inv[i].pc = "returned" /\ inv[i].out = "null" /\ inv[i].nRename = 0

\* C3's case: the sweep has come to today's file and the handler has been
\* called on another file named after today
C3_Witness ==
    /\ "c" \in swept
    /\ outcome = "completed"
    /\ \E i \in Called \ {0} : inv[i].file = "d" /\ inv[i].why = "today"

C5_TargetFolderExists ==
    \A i \in Called :
        LET f == inv[i].file
        IN inv[i].pc = "returned" /\ Fact(f).dated /\ ~Fact(f).today =>
            IsFolder(Fact(f).target)

\* the position of a file in a children array (0 when it is not there)
PositionIn(seq, f) ==
    IF \E k \in 1..Len(seq) : seq[k] = FileEntry(f)
    THEN CHOOSE k \in 1..Len(seq) : seq[k] = FileEntry(f)
    ELSE 0

\* the files a children array lists
FilesOf(seq) == {seq[k][2] : k \in {j \in 1..Len(seq) : IsFileEntry(seq[j])}}

\* C6: a sweep run after another, nothing but the first having touched the
\* vault and the backend having refused nothing it could serve, moves no
\* file.
C6_SecondSweepMovesNothing == run >= 2 /\ ~faulted => moves = 0

\* C7: a sweep that has run to its end has called handleOldDailyFile on
\* every file that was a direct child of the base folder when it started,
\* and on nothing else.
C7_EveryDirectFileSwept == outcome = "completed" => swept = FilesOf(startChildren)

\* C8: a call whose rename failed has returned null, once, with the file
\* where it was, and the sweep that has run to its end has classified every
\* file that followed the file in the base folder.
C8_MoveFailureIsolated ==
    /\ \A i \in Called : inv[i].why = "moveFailed" =>
        /\ inv[i].pc = "returned"
        /\ inv[i].out = "null"
        /\ inv[i].nRename = 1
        /\ filePath[inv[i].file] = inv[i].oldPath
    /\ outcome = "completed" =>
        \A f \in failed : \A g \in FilesOf(startChildren) :
            PositionIn(startChildren, g) > PositionIn(startChildren, f) => g \in swept

\* C9: a createFolder that fails during a call is caught in the call: no
\* call ends by raising (and so none takes the handler, the sweep or onload
\* with it).
C9_CreateFaultBecomesSkip == \A i \in InvIds : inv[i].pc # "raised"

\* C10: a sweep that finds the base folder absent, or a file, returns
\* without raising, having called handleOldDailyFile on nothing and issued
\* no createFolder and no rename.
C10_NoBaseFolderNoEffect ==
    outcome = "noFolder" =>
        /\ lpc = "sweepDone"
        /\ swept = {}
        /\ inv[0] = IdleInv
        /\ createCalls = 0
        /\ \A f \in FileIds : renameCalls[f] = 0 /\ filePath[f] \in {<<>>, OriginPath(f)}

\* C10's case: the second sweep in a row has returned from a vault where the
\* base folder's path is a file
C10_Witness ==
    /\ outcome = "noFolder"
    /\ run = 2
    /\ \E f \in FileIds : filePath[f] = settings.baseJournalFolder

\* C11: a file that is not under the base folder is never classified,
\* whatever files are created and in whatever order: no call of
\* handleOldDailyFile is made on it (so no folder is created for it), no
\* rename of it is issued and it stays where it appeared.
C11_OutsideNeverClassified ==
    \A f \in FileIds : filePath[f] # <<>> /\ ~Fact(f).under =>
        /\ \A i \in Called : inv[i].file # f
        /\ renameCalls[f] = 0
        /\ filePath[f] = OriginPath(f)

\* C11's case: a file was created in jx, beside the base folder j, the
\* handler made no call for it, and the handler then moved the next file
\* created
C11_Witness ==
    /\ filePath["o"] # <<>>
    /\ inv[1].pc = "idle"
    /\ inv[2].why = "moved"

\* base/year and base/year/month of the date of the run
CurrentFolders ==
    [s \in {DEFAULT_SETTINGS}, t \in {Today} |->
        LET year == s.baseJournalFolder \o <<"/">> \o Format(t, s.yearlyFolderFormat)
        IN [year |-> year, month |-> year \o <<"/">> \o Format(t, s.monthlyFolderFormat)]]

\* onload is past ensureCurrentFolderExists, which returned
EnsuredCurrentFolder == lpc \in {"sweep", "loop", "classify", "sweepDone", "loaded"}

\* C12: the sweep makes no call of handleOldDailyFile before
\* ensureCurrentFolderExists has returned, and once it has returned today's
\* year folder and today's month folder are folders of the vault, so that
\* both are while the sweep is classifying a file.
C12_CurrentFoldersExist ==
    /\ inv[0].pc # "idle" => EnsuredCurrentFolder \/ lpc = "crashed"
    /\ EnsuredCurrentFolder =>
        /\ IsFolder(CurrentFolders[settings, today].year)
        /\ IsFolder(CurrentFolders[settings, today].month)

\* the calls that have computed their target folder path
Targeted == {i \in Called : inv[i].target # <<>>}

\* C13: the target folder path a call computes for a dated file is
\* base/year/base/year/month: the base folder and the year named twice.
C13_TargetNestsBaseTwice ==
    \A i \in Targeted : inv[i].target = Fact(inv[i].file).nested

\* C13, amended: the target folder path a call computes for a dated file is
\* base + "/" + format(date, yearFmt) + "/" + format(date, monthFmt), for
\* every base folder and every pair of formats.
C13_TargetIsBaseYearMonth ==
    \A i \in Targeted :
        /\ Fact(inv[i].file).dated
        /\ inv[i].target = Fact(inv[i].file).target

\* C13's case: under the nested base folder j/old, with the year folders
\* named YYYY-MM and the month folders MM, a call on 2025-01-15.md has
\* computed j/old/2025-01/01
C13_Witness ==
    \E i \in Targeted :
        /\ inv[i].file = "q"
        /\ settings.baseJournalFolder = <<"j", "/", "o", "l", "d">>
        /\ inv[i].target = <<"j", "/", "o", "l", "d", "/",
                             "2", "0", "2", "5", "-", "0", "1", "/", "0", "1">>

\* C14: two calls on different files with one target folder that both found
\* it missing (each has issued a createFolder for it, so each ran its
\* existence check before the other created it), the backend refusing
\* nothing it could serve: neither call raises, and once both have returned
\* the folder is a folder of the vault, listed once in its parent, and each
\* file is in it.
C14_SharedTargetRaceIsBenign ==
    \A i, k \in Targeted :
        /\ inv[i].file # inv[k].file
        /\ inv[i].target = inv[k].target
        /\ inv[i].nCreate >= 1
        /\ inv[k].nCreate >= 1
        /\ ~faulted
        => /\ inv[i].pc # "raised"
           /\ inv[i].pc = "returned" /\ inv[k].pc = "returned" =>
                LET t == inv[i].target
                IN /\ IsFolder(t)
                   /\ Cardinality(Positions(children[ParentOf(t)], FolderEntry(t))) = 1
                   /\ inv[i].why = "moved"
                   /\ ParentOf(filePath[inv[i].file]) = t

\* organizeExistingFiles has been called by onload and has not returned
SweepInFlight == lpc \in {"loop", "classify"}

\* the calls the create-event handler has made
HandlerCalls == Called \ {0}

\* C15: the handler classifies while the startup sweep is in flight, the
\* host triggering the two independently: a file created under the base
\* folder since onload began has, while the sweep is still running, a call
\* of the handler on it.
C15_HandlerRunsDuringSweep ==
    SweepInFlight =>
        \A f \in StartupCreated : filePath[f] # <<>> /\ Fact(f).under =>
            \E i \in HandlerCalls : inv[i].file = f

\* C15, amended: no state has the handler classifying a file while the
\* startup sweep is in flight: the handler makes its calls only once
\* organizeExistingFiles has returned and the handler is registered, so a
\* call of the handler interleaves with other calls of the handler and never
\* with a call of the sweep.
C15_HandlerOnlyAfterSweep ==
    HandlerCalls # {} =>
        /\ registered
        /\ lpc = "loaded"
        /\ ~SweepInFlight
        /\ inv[0].pc \in {"idle", "returned"}

\* C15's case: a file was created in the base folder while the sweep was in
\* flight and got no call of the handler (the sweep's iterator came to it);
\* the handler, registered since, is at an await of its call on another file
C15_Witness ==
    /\ filePath["b"] # <<>>
    /\ "b" \in swept \ FilesOf(startChildren)
    /\ \A i \in HandlerCalls : inv[i].file # "b"
    /\ \E i \in HandlerCalls :
        inv[i].pc \in {"exists1", "create1", "placed", "exists2", "create2", "rename"}

\* the calls whose first ensureFolderExists (line 118) has completed
EnsuredOnce ==
    {i \in Targeted : \/ inv[i].pc \in {"placed", "exists2", "create2", "rename"}
                      \/ inv[i].why \in {"placed", "moved", "moveFailed"}}

\* C16: once a call of ensureFolderExists on a path has completed, a call on
\* the same path made after it (line 126 after line 118, or a later call of
\* handleOldDailyFile with the same target) finds the path taken: it issues
\* no createFolder, so it cannot fail and changes no folder.
C16_SecondEnsureIsNoOp ==
    \A i \in Targeted :
        /\ inv[i].pc # "create2"
        /\ inv[i].nCreate <= 1
        /\ inv[i].pc = "raised" => inv[i].nCreate = 1 /\ i \notin EnsuredOnce
        /\ i \in EnsuredOnce => Exists(inv[i].target)

\* C16's case: a call whose first ensureFolderExists created the folder and
\* a call whose first ensureFolderExists found it there have both completed
\* their second
C16_Witness ==
    \E i, k \in Targeted :
        /\ inv[i].target = inv[k].target
        /\ inv[i].nCreate = 1
        /\ inv[k].nCreate = 0
        /\ inv[i].why = "moved"
        /\ inv[k].pc = "rename"

\* C17: a call goes by this.settings as it was when the call was made,
\* whatever edits are made while it is at an await: the format its file's
\* name was parsed with is the format of its today guard, the folder it
\* ensures is base/year/month of that snapshot, and the folder it moves the
\* file into is the folder it ensured.
C17_OneSnapshotPerCall ==
    \A i \in Called :
        LET fact == Facts[inv[i].snap, today, inv[i].file]
        IN /\ inv[i].why = "notDated" <=> ~fact.dated
           /\ inv[i].why = "today" <=> fact.dated /\ fact.today
           /\ i \in Targeted <=> fact.dated /\ ~fact.today
           /\ i \in Targeted => inv[i].target = fact.target
           /\ inv[i].why = "moved" =>
                /\ filePath[inv[i].file] = fact.filed
                /\ ParentOf(filePath[inv[i].file]) = inv[i].target

\* C17's case: a file has been moved by a call during which the month
\* format or the base folder was edited, so that the settings at its end
\* give the file another target than the folder it is in
C17_Witness ==
    \E i \in Called :
        /\ inv[i].why = "moved"
        /\ inv[i].snap # settings
        /\ Fact(inv[i].file).dated
        /\ Fact(inv[i].file).target # inv[i].target
        /\ ParentOf(filePath[inv[i].file]) = inv[i].target

\* the calls made on a file that is at target/name
CalledOnFiled == {i \in Targeted : inv[i].oldPath = Fact(inv[i].file).filed}

\* C18: a call on a file that a call has moved, the file now at
\* target/name, issues no rename (and no createFolder) and returns null as
\* for a file already placed; and whatever sweeps and create events follow
\* one another, no file is moved by two calls.
C18_MovedFileIsFixpoint ==
    /\ \A i \in CalledOnFiled :
        /\ inv[i].nRename = 0
        /\ inv[i].nCreate = 0
        /\ inv[i].pc \in {"exists1", "placed", "returned"}
        /\ inv[i].pc = "returned" => inv[i].out = "null" /\ inv[i].why = "placed"
        /\ filePath[inv[i].file] = inv[i].oldPath
    /\ \A i, k \in Called :
        inv[i].why = "moved" /\ inv[k].why = "moved" /\ inv[i].file = inv[k].file => i = k

\* C18's case: a file the first sweep moved has been classified again by the
\* handler, which returned null, and a second sweep has run to its end
C18_Witness ==
    /\ run = 2
    /\ outcome = "completed"
    /\ \E i \in CalledOnFiled :
        /\ i # 0
        /\ inv[i].pc = "returned"
        /\ renameCalls[inv[i].file] = 1

====
